---- MODULE Spec2Model ----
(***************************************************************************)
(* The two services of the repository as one state machine.                *)
(*                                                                         *)
(*   src/user_service.py  the User Service: a tornado application over a   *)
(*                        single sqlite table 'users'.                     *)
(*   src/public_api.py    the public gateway: validates and forwards to    *)
(*                        the Listing Service.                             *)
(*                                                                         *)
(* Every handler is a tornado coroutine without a yield, so one request is *)
(* one atomic step.  The state is the users table plus the record of the   *)
(* most recent request: what was asked, what was answered, which SQL       *)
(* statements it ran and which calls it made to the Listing Service.      *)
(***************************************************************************)
EXTENDS Integers, Sequences, FiniteSets, TLC

VARIABLES users, req, resp, sql, calls

vars == <<users, req, resp, sql, calls>>

(***************************************************************************)
(* Bounds of the model.                                                    *)
(***************************************************************************)
\* rows a fresh database grows to
MaxUsers == 3
\* time.time() readings are drawn from 1..MaxTime (the wall clock may repeat
\* a reading and may step backwards)
MaxTime == 2
\* rows of a database file left behind by an earlier run of the service
PersistedRows == 9
\* rows added on top of such a file
MaxNew == 2

(***************************************************************************)
(* Program constants.                                                      *)
(***************************************************************************)
UsersDefaultPageNum == 1
UsersDefaultPageSize == 10
ListingsDefaultPageNum == 1
ListingsDefaultPageSize == 10
MinPrice == 1

(***************************************************************************)
(* Values.  A JSON value (or a Python value obtained from one) is a tagged *)
(* record: t is the type, i the number it holds, s the characters of a     *)
(* string.  A float holds its value in tenths (i = 15 is 1.5).             *)
(***************************************************************************)
JInt(n) == [t |-> "int", i |-> n, s |-> <<>>]
JFloat(tenths) == [t |-> "float", i |-> tenths, s |-> <<>>]
JBool(b) == [t |-> "bool", i |-> IF b THEN 1 ELSE 0, s |-> <<>>]
JStr(chars) == [t |-> "str", i |-> 0, s |-> chars]
JNull == [t |-> "null", i |-> 0, s |-> <<>>]
JList == [t |-> "list", i |-> 0, s |-> <<>>]

\* a request argument: given with a text, or not given at all
Arg(text) == [present |-> TRUE, text |-> text]
Absent == [present |-> FALSE, text |-> <<>>]

DigitChars == <<"0", "1", "2", "3", "4", "5", "6", "7", "8", "9">>

IsDigit(c) == \E k \in 1..10 : DigitChars[k] = c

DigitVal(c) == (CHOOSE k \in 1..10 : DigitChars[k] = c) - 1

RECURSIVE LStrip(_)
LStrip(s) == IF s # <<>> /\ Head(s) = " " THEN LStrip(Tail(s)) ELSE s

RECURSIVE RStrip(_)
RStrip(s) ==
    IF s # <<>> /\ s[Len(s)] = " " THEN RStrip(SubSeq(s, 1, Len(s) - 1)) ELSE s

Strip(s) == RStrip(LStrip(s))

\* digit (["_"] digit)* : the digit part of a Python integer literal
DigitPartOk(d) ==
    /\ d # <<>>
    /\ \A k \in 1..Len(d) : IsDigit(d[k]) \/ d[k] = "_"
    /\ IsDigit(d[1]) /\ IsDigit(d[Len(d)])
    /\ \A k \in 1..(Len(d) - 1) : ~(d[k] = "_" /\ d[k + 1] = "_")

RECURSIVE DigitPartVal(_, _)
DigitPartVal(d, acc) ==
    IF d = <<>> THEN acc
    ELSE IF Head(d) = "_" THEN DigitPartVal(Tail(d), acc)
    ELSE DigitPartVal(Tail(d), 10 * acc + DigitVal(Head(d)))

\* int(<str>): surrounding whitespace stripped, an optional sign, base 10
PyIntOfStr(chars) ==
    LET t == Strip(chars)
        signed == t # <<>> /\ Head(t) \in {"+", "-"}
        d == IF signed THEN Tail(t) ELSE t
        mag == IF DigitPartOk(d) THEN DigitPartVal(d, 0) ELSE 0
    IN  [ok |-> DigitPartOk(d),
         val |-> IF signed /\ Head(t) = "-" THEN 0 - mag ELSE mag]

\* int(x) of Python: [ok |-> FALSE] stands for the TypeError / ValueError
PyInt(x) ==
    CASE x.t = "int" -> [ok |-> TRUE, val |-> x.i]
      [] x.t = "bool" -> [ok |-> TRUE, val |-> x.i]
      [] x.t = "float" ->
            [ok |-> TRUE,
             val |-> IF x.i >= 0 THEN x.i \div 10 ELSE 0 - ((0 - x.i) \div 10)]
      [] x.t = "str" -> PyIntOfStr(x.s)
      [] OTHER -> [ok |-> FALSE, val |-> 0]

\* RequestHandler.get_argument(name, default)
GetArgument(arg, default) == IF arg.present THEN JStr(Strip(arg.text)) ELSE default

(***************************************************************************)
(* Responses.                                                              *)
(***************************************************************************)
\* BaseHandler.write_json(obj, status_code)
WriteJson(obj, status_code) == [status |-> status_code, body |-> obj]

\* RequestHandler.write("pong!")
WriteText(text) == [status |-> 200, body |-> [text |-> text]]

\* an exception that leaves the handler: tornado answers 500
ServerError == [status |-> 500, body |-> [text |-> "Internal Server Error"]]

\* MissingArgumentError of get_argument without a default: tornado answers 400
MissingArgument == [status |-> 400, body |-> [text |-> "Bad Request"]]

EmptyObject == [f \in {} |-> 0]

(***************************************************************************)
(* User Service: the users table.  The table is the sequence of its rows   *)
(* in insertion order.                                                     *)
(***************************************************************************)
UserFields == {"id", "name", "created_at", "updated_at"}

\* names as their characters; the empty name is not rejected
Names == {<<"a", "n", "n">>, <<>>}

Times == 1..MaxTime

Rows(table) == {table[k] : k \in 1..Len(table)}

MaxOf(S) == CHOOSE m \in S : \A x \in S : x <= m

\* a mutant of LastRowId: the id of the newest row is handed out again
LastRowIdReused(table) ==
    IF table = <<>> THEN 1 ELSE MaxOf({r.id : r \in Rows(table)})

\* INTEGER PRIMARY KEY AUTOINCREMENT: one more than the largest id ever used
LastRowId(table) ==
    IF table = <<>> THEN 1 ELSE MaxOf({r.id : r \in Rows(table)}) + 1

\* a mutant of InsertUser: the insert also stamps the rows already stored
InsertUserTouching(table, name, created_at, updated_at) ==
    Append([k \in 1..Len(table) |-> [table[k] EXCEPT !.updated_at = updated_at]],
           [id |-> LastRowId(table), name |-> name,
            created_at |-> created_at, updated_at |-> updated_at])

\* INSERT INTO 'users' ('name', 'created_at', 'updated_at') VALUES (?, ?, ?)
InsertUser(table, name, created_at, updated_at) ==
    Append(table, [id |-> LastRowId(table), name |-> name,
                   created_at |-> created_at, updated_at |-> updated_at])

\* the field projection of both user handlers
UserOf(row) == [f \in UserFields |-> row[f]]

\* ORDER BY created_at DESC: every order of the rows that is descending in
\* created_at (SQL leaves the order of rows with equal keys open)
RECURSIVE OrderByCreatedAtDesc(_)
OrderByCreatedAtDesc(S) ==
    IF S = {} THEN {<<>>}
    ELSE LET top == {r \in S : \A q \in S : q.created_at <= r.created_at}
         IN  UNION {{<<r>> \o rest : rest \in OrderByCreatedAtDesc(S \ {r})} :
                    r \in top}

\* a mutant of LimitOffset: the offset is one row short
LimitOffsetShort(rows, limit, offset) ==
    LET from == IF offset < 1 THEN 0 ELSE offset - 1
        upto == IF limit < 0 THEN Len(rows)
                ELSE IF from + limit > Len(rows) THEN Len(rows) ELSE from + limit
    IN  SubSeq(rows, from + 1, upto)

\* LIMIT ? OFFSET ? of sqlite: a negative OFFSET counts as 0, a negative
\* LIMIT as no limit
LimitOffset(rows, limit, offset) ==
    LET from == IF offset < 0 THEN 0 ELSE offset
        upto == IF limit < 0 THEN Len(rows)
                ELSE IF from + limit > Len(rows) THEN Len(rows) ELSE from + limit
    IN  SubSeq(rows, from + 1, upto)

\* SELECT * FROM users ORDER BY created_at DESC LIMIT ? OFFSET ?
SelectUsers(table, limit, offset) ==
    {LimitOffset(ordered, limit, offset) : ordered \in OrderByCreatedAtDesc(Rows(table))}

\* SELECT * FROM users WHERE id=? with args = (user_id): a str, so every
\* character of the path segment is one binding.  [ok |-> FALSE] is the
\* ProgrammingError for a number of bindings other than one; a single
\* character is compared with the INTEGER column as the number it spells.
SelectUserById(table, user_id) ==
    IF Len(user_id) # 1 THEN [ok |-> FALSE, rows |-> <<>>]
    ELSE [ok |-> TRUE,
          rows |-> SelectSeq(table, LAMBDA r : r.id = DigitVal(user_id[1]))]

(***************************************************************************)
(* User Service: the handlers.                                             *)
(***************************************************************************)
PageNumArgs == {Absent, Arg(<<"2">>), Arg(<<"0">>), Arg(<<"x">>)}

PageSizeArgs == {Absent, Arg(<<"2">>), Arg(<<"0">>), Arg(<<"-", "1">>), Arg(<<"2", "x">>)}

NameArgs == {Absent} \cup {Arg(n) : n \in Names}

\* path segments the route r"/users/(\d+)" lets through
PathIds ==
    {<<"0">>, <<"1">>, <<"9">>, <<"0", "1">>, <<"1", "0">>, <<"1", "1">>}

\* the model lets the table grow from empty to MaxUsers rows, and from a
\* persisted file by MaxNew rows
MayGrow(table) ==
    \/ Len(table) < MaxUsers
    \/ PersistedRows <= Len(table) /\ Len(table) < PersistedRows + MaxNew

\* a mutant of UsersPageParams: page_size is examined before page_num
UsersPageParamsSwapped(page_num_arg, page_size_arg) ==
    LET page_num == PyInt(GetArgument(page_num_arg, JInt(UsersDefaultPageNum)))
        page_size == PyInt(GetArgument(page_size_arg, JInt(UsersDefaultPageSize)))
    IN  IF ~page_size.ok THEN [error |-> "invalid page_size", page_num |-> 0, page_size |-> 0]
        ELSE IF ~page_num.ok THEN [error |-> "invalid page_num", page_num |-> 0, page_size |-> 0]
        ELSE [error |-> "", page_num |-> page_num.val, page_size |-> page_size.val]

\* UsersHandler.get, the parsing of the pagination params: the error that
\* ends the handler ("" for none) and the parsed values
UsersPageParams(page_num_arg, page_size_arg) ==
    LET page_num == PyInt(GetArgument(page_num_arg, JInt(UsersDefaultPageNum)))
        page_size == PyInt(GetArgument(page_size_arg, JInt(UsersDefaultPageSize)))
    IN  IF ~page_num.ok THEN [error |-> "invalid page_num", page_num |-> 0, page_size |-> 0]
        ELSE IF ~page_size.ok THEN [error |-> "invalid page_size", page_num |-> 0, page_size |-> 0]
        ELSE [error |-> "", page_num |-> page_num.val, page_size |-> page_size.val]

\* UsersHandler.get
UsersGet ==
    \E page_num_arg \in PageNumArgs, page_size_arg \in PageSizeArgs :
        LET page == UsersPageParams(page_num_arg, page_size_arg)
            limit == page.page_size
            offset == (page.page_num - 1) * page.page_size
        IN  /\ req' = [op |-> "GET /users",
                       page_num |-> page_num_arg, page_size |-> page_size_arg]
            /\ calls' = <<>>
            /\ UNCHANGED users
            /\ IF page.error # ""
               THEN /\ resp' = WriteJson([result |-> FALSE, errors |-> page.error], 400)
                    /\ sql' = <<>>
               ELSE \E results \in SelectUsers(users, limit, offset) :
                    /\ sql' = <<[stmt |-> "SELECT", limit |-> limit, offset |-> offset]>>
                    /\ resp' = WriteJson(
                          [result |-> TRUE,
                           users |-> [k \in 1..Len(results) |-> UserOf(results[k])]], 200)

\* UsersHandler.post.  The errors list stays empty (the name validation is
\* commented out), so the 400 branch is never taken; cursor.lastrowid is set
\* by every INSERT that returns, so neither is the 500 branch.
UsersPost ==
    \E name_arg \in NameArgs, time_now \in Times :
        LET user_name == Strip(name_arg.text)
        IN  /\ req' = [op |-> "POST /users", name |-> name_arg]
            /\ calls' = <<>>
            /\ IF ~name_arg.present
               THEN /\ resp' = MissingArgument
                    /\ sql' = <<>>
                    /\ UNCHANGED users
               ELSE /\ MayGrow(users)
                    /\ users' = InsertUser(users, user_name, time_now, time_now)
                    /\ sql' = <<[stmt |-> "INSERT"]>>
                    /\ resp' = WriteJson(
                          [result |-> TRUE,
                           user |-> [id |-> LastRowId(users), name |-> user_name,
                                     created_at |-> time_now, updated_at |-> time_now]], 200)

\* UserHandler.get
UserGet ==
    \E user_id \in PathIds :
        LET results == SelectUserById(users, user_id)
            user == IF results.rows = <<>> THEN EmptyObject
                    ELSE UserOf(results.rows[Len(results.rows)])
        IN  /\ req' = [op |-> "GET /users/{id}", user_id |-> user_id]
            /\ calls' = <<>>
            /\ UNCHANGED users
            /\ IF ~results.ok
               THEN /\ resp' = WriteJson([result |-> FALSE, user |-> EmptyObject], 404)
                    /\ sql' = <<>>
               ELSE /\ resp' = WriteJson([result |-> TRUE, user |-> user], 200)
                    /\ sql' = <<[stmt |-> "SELECT BY ID"]>>

\* PingHandler.get of the User Service
UsersPing ==
    /\ req' = [op |-> "GET /users/ping"]
    /\ resp' = WriteText("pong!")
    /\ sql' = <<>>
    /\ calls' = <<>>
    /\ UNCHANGED users

(***************************************************************************)
(* Gateway: GET /listings.                                                 *)
(***************************************************************************)
ListingFields == {"id", "user_id", "listing_type", "price", "created_at", "updated_at"}

Rent == <<"r", "e", "n", "t">>
Sale == <<"s", "a", "l", "e">>

\* listings as the Listing Service may return them: the six fields of a
\* listing, with or without fields of the backend's own
PlainListing ==
    [id |-> 1, user_id |-> 5, listing_type |-> Rent, price |-> 1500,
     created_at |-> 1, updated_at |-> 2]

RichListing ==
    [id |-> 2, user_id |-> 7, listing_type |-> Sale, price |-> 1,
     created_at |-> 3, updated_at |-> 3, owner_note |-> <<"x">>, rank |-> 4]

\* replies of the Listing Service to GET /listings; the last one is an error
\* reply, which holds no listings
GetReplies ==
    {[result |-> TRUE, listings |-> <<>>],
     [result |-> TRUE, listings |-> <<RichListing>>],
     [result |-> TRUE, listings |-> <<PlainListing, RichListing>>],
     [result |-> TRUE, listings |-> <<RichListing, PlainListing, RichListing>>],
     [result |-> FALSE, errors |-> <<"backend">>]}

GatewayPageNumArgs == {Absent, Arg(<<"2">>), Arg(<<" ", "3">>), Arg(<<"x">>)}

GatewayPageSizeArgs == {Absent, Arg(<<"5">>), Arg(<<"1", ".", "5">>), Arg(<<>>)}

UserIdArgs == {Absent, Arg(<<"5">>), Arg(<<"a", "b", "c">>)}

\* a mutant of ProjectListing: the row is passed on as the backend sent it
ProjectListingWhole(row) == row

\* {field: row[field] for field in fields}
ProjectListing(row) == [f \in ListingFields |-> row[f]]

\* a mutant of ListingsPageParams: page_size is examined before page_num
ListingsPageParamsSwapped(page_num_arg, page_size_arg) ==
    LET page_num == PyInt(GetArgument(page_num_arg, JInt(ListingsDefaultPageNum)))
        page_size == PyInt(GetArgument(page_size_arg, JInt(ListingsDefaultPageSize)))
    IN  IF ~page_size.ok THEN [error |-> "invalid page_size", page_num |-> 0, page_size |-> 0]
        ELSE IF ~page_num.ok THEN [error |-> "invalid page_num", page_num |-> 0, page_size |-> 0]
        ELSE [error |-> "", page_num |-> page_num.val, page_size |-> page_size.val]

\* ListingsHandler.get, the parsing of the pagination params: the error that
\* ends the handler ("" for none) and the parsed values
ListingsPageParams(page_num_arg, page_size_arg) ==
    LET page_num == PyInt(GetArgument(page_num_arg, JInt(ListingsDefaultPageNum)))
        page_size == PyInt(GetArgument(page_size_arg, JInt(ListingsDefaultPageSize)))
    IN  IF ~page_num.ok THEN [error |-> "invalid page_num", page_num |-> 0, page_size |-> 0]
        ELSE IF ~page_size.ok THEN [error |-> "invalid page_size", page_num |-> 0, page_size |-> 0]
        ELSE [error |-> "", page_num |-> page_num.val, page_size |-> page_size.val]

\* ListingsHandler.get
ListingsGet ==
    \E page_num_arg \in GatewayPageNumArgs, page_size_arg \in GatewayPageSizeArgs,
       user_id_arg \in UserIdArgs, reply \in GetReplies :
        LET page == ListingsPageParams(page_num_arg, page_size_arg)
            user_id == PyInt(GetArgument(user_id_arg, JNull))
            \* requests leaves a parameter whose value is None out of the query
            payload == IF user_id_arg.present
                       THEN [page_num |-> page.page_num, page_size |-> page.page_size,
                             user_id |-> user_id.val]
                       ELSE [page_num |-> page.page_num, page_size |-> page.page_size]
            call == [method |-> "GET", path |-> "/listings", params |-> payload,
                     reply |-> reply]
        IN  /\ req' = [op |-> "GET /listings", page_num |-> page_num_arg,
                       page_size |-> page_size_arg, user_id |-> user_id_arg]
            /\ sql' = <<>>
            /\ UNCHANGED users
            /\ IF page.error # ""
               THEN /\ resp' = WriteJson([result |-> FALSE, errors |-> page.error], 400)
                    /\ calls' = <<>>
               ELSE IF user_id_arg.present /\ ~user_id.ok
               THEN /\ resp' = WriteJson([result |-> FALSE, errors |-> "invalid user_id"], 400)
                    /\ calls' = <<>>
               ELSE IF "listings" \notin DOMAIN reply
               THEN \* data.get("listings") is None: the for loop raises TypeError
                    /\ resp' = ServerError
                    /\ calls' = <<call>>
               ELSE /\ calls' = <<call>>
                    /\ resp' = WriteJson(
                          [result |-> TRUE,
                           listings |-> [k \in 1..Len(reply.listings) |->
                                            ProjectListing(reply.listings[k])]], 200)

(***************************************************************************)
(* Gateway: POST /listings.                                                *)
(***************************************************************************)
\* values of the fields of the JSON object in the body; a field the body
\* lacks reads as None (data.get), like a JSON null
UserIdValues ==
    {JNull, JInt(5), JStr(<<"7">>), JStr(<<"a", "b", "c">>), JFloat(57), JBool(TRUE), JList}

ListingTypeValues ==
    {JNull, JStr(Rent), JStr(Sale), JStr(<<"l", "e", "a", "s", "e">>),
     JStr(<<"R", "e", "n", "t">>), JInt(1), JList}

PriceValues ==
    {JNull, JInt(0), JInt(1), JInt(1500), JInt(-3), JStr(<<"2", "0">>), JStr(<<"x">>),
     JStr(<<" ", "0", "9">>), JFloat(15), JFloat(5), JBool(TRUE), JList}

\* replies of the Listing Service to POST /listings
PostReplies ==
    {[result |-> TRUE, listing |-> PlainListing],
     [result |-> FALSE, errors |-> <<"backend">>]}

\* ListingsHandler._validate_user_id: the value returned (None as JNull) and
\* the errors list after the call
ValidateUserId(user_id, errors) ==
    LET n == PyInt(user_id)
    IN  IF n.ok THEN [val |-> JInt(n.val), errors |-> errors]
        ELSE [val |-> JNull, errors |-> Append(errors, "invalid user_id")]

\* a list or a dict cannot be hashed: looking one up in a set raises TypeError
Unhashable(x) == x.t = "list"

\* ListingsHandler._validate_listing_type; raised: the TypeError of the set
\* lookup, which nothing catches
ValidateListingType(listing_type, errors) ==
    IF Unhashable(listing_type)
    THEN [raised |-> TRUE, val |-> JNull, errors |-> errors]
    ELSE IF listing_type \notin {JStr(Rent), JStr(Sale)}
    THEN [raised |-> FALSE, val |-> JNull,
          errors |-> Append(errors, "invalid listing_type. Supported values: 'rent', 'sale'")]
    ELSE [raised |-> FALSE, val |-> listing_type, errors |-> errors]

\* ListingsHandler._validate_price
ValidatePrice(price, errors) ==
    LET n == PyInt(price)
    IN  IF ~n.ok
        THEN [val |-> JNull, errors |-> Append(errors, "invalid price. Must be an integer")]
        ELSE IF n.val < MinPrice
        THEN [val |-> JNull, errors |-> Append(errors, "price must be greater than 0")]
        ELSE [val |-> JInt(n.val), errors |-> errors]

\* ListingsHandler.post
ListingsPost ==
    \E user_id \in UserIdValues, listing_type \in ListingTypeValues,
       price \in PriceValues, reply \in PostReplies :
        LET user_id_val == ValidateUserId(user_id, <<>>)
            listing_type_val == ValidateListingType(listing_type, user_id_val.errors)
            price_val == ValidatePrice(price, listing_type_val.errors)
            errors == price_val.errors
            payload == [user_id |-> user_id_val.val, listing_type |-> listing_type_val.val,
                        price |-> price_val.val]
        IN  /\ req' = [op |-> "POST /listings", user_id |-> user_id,
                       listing_type |-> listing_type, price |-> price]
            /\ sql' = <<>>
            /\ UNCHANGED users
            /\ IF listing_type_val.raised
               THEN /\ resp' = ServerError
                    /\ calls' = <<>>
               ELSE IF Len(errors) > 0
               THEN /\ resp' = WriteJson([result |-> FALSE, errors |-> errors], 400)
                    /\ calls' = <<>>
               ELSE /\ calls' = <<[method |-> "POST", path |-> "/listings",
                                   params |-> payload, reply |-> reply]>>
                    /\ resp' = WriteJson(reply, 200)

\* PingHandler.get of the gateway
GatewayPing ==
    /\ req' = [op |-> "GET /ping"]
    /\ resp' = WriteText("pong!")
    /\ calls' = <<>>
    /\ sql' = <<>>
    /\ UNCHANGED users

NoRequest == [op |-> "none"]

\* App.__init__ on a fresh users.db: init_db creates the empty table
Init ==
    /\ users = <<>>
    /\ req = NoRequest
    /\ resp = [status |-> 0, body |-> EmptyObject]
    /\ sql = <<>>
    /\ calls = <<>>

\* the table of a users.db written by an earlier run of the service
PersistedTable ==
    [k \in 1..PersistedRows |->
        [id |-> k, name |-> <<"a", "n", "n">>, created_at |-> k, updated_at |-> k]]

\* App.__init__ on such a file: CREATE TABLE IF NOT EXISTS keeps its rows
InitRestart ==
    /\ users = PersistedTable
    /\ req = NoRequest
    /\ resp = [status |-> 0, body |-> EmptyObject]
    /\ sql = <<>>
    /\ calls = <<>>

NextUser == UsersGet \/ UsersPost \/ UserGet \/ UsersPing

\* the User Service on a fresh database
UserSpec == Init /\ [][NextUser]_vars

\* the User Service restarted on a database that holds rows
RestartSpec == InitRestart /\ [][NextUser]_vars

NextGateway == ListingsGet \/ ListingsPost \/ GatewayPing

\* the gateway in front of the Listing Service
GatewaySpec == Init /\ [][NextGateway]_vars

NextList == UsersGet \/ ListingsGet

\* the two list endpoints, the User Service started on a database that holds
\* rows
ListSpec == InitRestart /\ [][NextList]_vars

(***************************************************************************)
(* The claims.                                                             *)
(***************************************************************************)
\* the integer a request argument stands for, the default when not given
ArgInt(arg, default) ==
    IF arg.present THEN PyIntOfStr(arg.text) ELSE [ok |-> TRUE, val |-> default]

RECURSIVE DecimalOf(_)
\* the decimal digits of a natural number
DecimalOf(n) ==
    IF n < 10 THEN <<DigitChars[n + 1]>>
    ELSE DecimalOf(n \div 10) \o <<DigitChars[(n % 10) + 1]>>

\* a field of the request and the integer forwarded for it hold the same
\* value: the same JSON integer, or the string of its decimal digits
SameValue(given, sent) ==
    \/ given.t = "int" /\ sent = JInt(given.i)
    \/ given.t = "str" /\ sent.t = "int" /\ sent.i >= 0 /\ given.s = DecimalOf(sent.i)

UserIdInvalid(x) == ~PyInt(x).ok
ListingTypeInvalid(x) == x \notin {JStr(Rent), JStr(Sale)}
PriceInvalid(x) == ~PyInt(x).ok \/ PyInt(x).val < 1

IsErrorList(response) ==
    /\ response.status = 400
    /\ DOMAIN response.body = {"result", "errors"}
    /\ response.body.result = FALSE

Holds(errors, message) == \E k \in 1..Len(errors) : errors[k] = message

\* C1: POST /listings with at least one invalid field answers 400 with
\* {result:false, errors:[...]}, the errors hold one message for every invalid
\* field, and nothing is sent to the Listing Service.
C1_AllErrorsCollected ==
    (req.op = "POST /listings"
        /\ (UserIdInvalid(req.user_id) \/ ListingTypeInvalid(req.listing_type)
              \/ PriceInvalid(req.price)))
    => /\ IsErrorList(resp)
       /\ UserIdInvalid(req.user_id) => Holds(resp.body.errors, "invalid user_id")
       /\ ListingTypeInvalid(req.listing_type) =>
             Holds(resp.body.errors, "invalid listing_type. Supported values: 'rent', 'sale'")
       /\ PriceInvalid(req.price) =>
             \/ Holds(resp.body.errors, "invalid price. Must be an integer")
             \/ Holds(resp.body.errors, "price must be greater than 0")
       /\ calls = <<>>

\* C2: POST /listings with user_id an integer, listing_type rent or sale and
\* price an integer >= 1 makes exactly one call to the Listing Service, with
\* the request's own user_id, listing_type and price, and answers with the
\* Listing Service's reply; nothing is forwarded in any other case.
C2_ForwardsRequestValues ==
    req.op = "POST /listings" =>
        LET valid == ~UserIdInvalid(req.user_id) /\ ~ListingTypeInvalid(req.listing_type)
                        /\ ~PriceInvalid(req.price)
        IN  /\ calls # <<>> => valid
            /\ valid =>
                  /\ Len(calls) = 1
                  /\ DOMAIN calls[1].params = {"user_id", "listing_type", "price"}
                  /\ SameValue(req.user_id, calls[1].params.user_id)
                  /\ calls[1].params.listing_type = req.listing_type
                  /\ SameValue(req.price, calls[1].params.price)
                  /\ resp.body = calls[1].reply

\* C3: GET /users/{id} for an id that no row has answers 404 with
\* {result:false, user:{}}.
C3_AbsentIdIs404 ==
    (req.op = "GET /users/{id}"
        /\ \A r \in Rows(users) : r.id # PyIntOfStr(req.user_id).val)
    => /\ resp.status = 404
       /\ resp.body.result = FALSE
       /\ DOMAIN resp.body.user = {}

\* C4: GET /users/{id} for the id of a stored row, of any number of digits,
\* answers 200 with {result:true, user} where user holds that row's fields.
C4_StoredIdIsFound ==
    req.op = "GET /users/{id}" =>
        \A k \in 1..Len(users) :
            DecimalOf(users[k].id) = req.user_id =>
                /\ resp.status = 200
                /\ resp.body.result = TRUE
                /\ DOMAIN resp.body.user = UserFields
                /\ \A f \in UserFields : resp.body.user[f] = users[k][f]

\* the orders of the whole table that are descending in created_at
DescendingOrders(table) ==
    {[k \in 1..Len(table) |-> table[p[k]]] :
        p \in {q \in [1..Len(table) -> 1..Len(table)] :
                 /\ \A a, b \in 1..Len(table) : a # b => q[a] # q[b]
                 /\ \A a \in 1..(Len(table) - 1) :
                       table[q[a]].created_at >= table[q[a + 1]].created_at}}

\* C5: GET /users with page_num >= 1 and page_size >= 1 returns at most
\* page_size users, descending in created_at: the rows at the positions
\* (page_num-1)*page_size+1 .. page_num*page_size of the table sorted by
\* created_at descending, each with exactly id, name, created_at, updated_at.
C5_PageOfSortedTable ==
    (req.op = "GET /users"
        /\ ArgInt(req.page_num, 1).ok /\ ArgInt(req.page_size, 10).ok
        /\ ArgInt(req.page_num, 1).val >= 1 /\ ArgInt(req.page_size, 10).val >= 1)
    => LET page_num == ArgInt(req.page_num, 1).val
           page_size == ArgInt(req.page_size, 10).val
           first == (page_num - 1) * page_size + 1
           got == resp.body.users
           \* the rows the table has from position first on, page_size at most
           left == Len(users) - first + 1
           count == IF left < 0 THEN 0 ELSE IF left > page_size THEN page_size ELSE left
       IN  /\ resp.status = 200 /\ resp.body.result = TRUE
           /\ Len(got) <= page_size
           /\ Len(got) = count
           /\ \A k \in 1..Len(got) : DOMAIN got[k] = UserFields
           /\ \A k \in 1..(Len(got) - 1) : got[k].created_at >= got[k + 1].created_at
           /\ \E sorted \in DescendingOrders(users) :
                 \A k \in 1..count :
                    \A f \in UserFields : got[k][f] = sorted[first + k - 1][f]

C5_SecondPageReached ==
    /\ req.op = "GET /users"
    /\ req.page_num = Arg(<<"2">>) /\ req.page_size = Arg(<<"2">>)
    /\ Len(users) = 3
    /\ Len(resp.body.users) = 1
    /\ \E k \in 1..3 : users[k].created_at > resp.body.users[1].created_at

\* C6: POST /users returns a user with created_at = updated_at and an id
\* greater than the id of every earlier creation; the ids of the stored rows
\* are unique and created_at <= updated_at in every row.
C6_IdsIncrease ==
    /\ (req.op = "POST /users" /\ resp.status = 200) =>
          /\ resp.body.result = TRUE
          /\ resp.body.user.created_at = resp.body.user.updated_at
          /\ \A f \in UserFields : resp.body.user[f] = users[Len(users)][f]
          /\ \A k \in 1..(Len(users) - 1) : users[k].id < resp.body.user.id
    /\ \A a, b \in 1..Len(users) : a # b => users[a].id # users[b].id
    /\ \A k \in 1..Len(users) : users[k].created_at <= users[k].updated_at

C6_ThirdUserCreated ==
    /\ req.op = "POST /users" /\ resp.status = 200
    /\ Len(users) = 3
    /\ resp.body.user.id = 3

\* C7: on GET /users and on the gateway's GET /listings page_num defaults to
\* 1 and page_size to 10; a page_num that is no integer answers 400 with
\* errors "invalid page_num", otherwise a page_size that is no integer answers
\* 400 with errors "invalid page_size", and in both cases no statement is run
\* on the store and nothing is sent to the Listing Service.
C7_PageParams ==
    req.op \in {"GET /users", "GET /listings"} =>
        LET page_num == ArgInt(req.page_num, 1)
            page_size == ArgInt(req.page_size, 10)
        IN  IF ~page_num.ok
            THEN /\ resp = WriteJson([result |-> FALSE, errors |-> "invalid page_num"], 400)
                 /\ sql = <<>> /\ calls = <<>>
            ELSE IF ~page_size.ok
            THEN /\ resp = WriteJson([result |-> FALSE, errors |-> "invalid page_size"], 400)
                 /\ sql = <<>> /\ calls = <<>>
            ELSE /\ req.op = "GET /users" =>
                       /\ Len(sql) = 1
                       /\ sql[1].limit = page_size.val
                       /\ sql[1].offset = (page_num.val - 1) * page_size.val
                 /\ (req.op = "GET /listings" /\ calls # <<>>) =>
                       /\ calls[1].params.page_num = page_num.val
                       /\ calls[1].params.page_size = page_size.val

C7_BadPageSizeRejected ==
    /\ req.op = "GET /users"
    /\ req.page_num = Arg(<<"2">>) /\ req.page_size = Arg(<<"2", "x">>)
    /\ users # <<>>
    /\ resp.status = 400 /\ resp.body.errors = "invalid page_size"

\* C8: GET /listings answers a list from the Listing Service with
\* {result:true, listings:[...]}: one object per backend listing, in the same
\* order, each with exactly the six listing fields and their backend values;
\* projecting a projected object again changes nothing.
C8_ListingsProjected ==
    (req.op = "GET /listings" /\ calls # <<>> /\ "listings" \in DOMAIN calls[1].reply)
    => LET sent == calls[1].reply.listings
           got == resp.body.listings
       IN  /\ resp.status = 200
           /\ DOMAIN resp.body = {"result", "listings"}
           /\ resp.body.result = TRUE
           /\ Len(got) = Len(sent)
           /\ \A k \in 1..Len(got) :
                 /\ DOMAIN got[k] = ListingFields
                 /\ \A f \in ListingFields : got[k][f] = sent[k][f]
                 /\ ProjectListing(got[k]) = got[k]

C8_ExtraFieldsDropped ==
    /\ req.op = "GET /listings" /\ resp.status = 200
    /\ Len(calls) = 1 /\ Len(calls[1].reply.listings) = 3
    /\ "owner_note" \in DOMAIN calls[1].reply.listings[1]
    /\ Len(resp.body.listings) = 3

\* C9: GET /users, GET /users/{id} and GET /users/ping leave the users table
\* as it is; a successful POST /users adds exactly one row and leaves every
\* row stored before as it is.
C9_RowsNeverChange ==
    [][/\ req'.op \in {"GET /users", "GET /users/{id}", "GET /users/ping"} =>
             users' = users
       /\ req'.op = "POST /users" =>
             IF resp'.status = 200
             THEN /\ Len(users') = Len(users) + 1
                  /\ \A k \in 1..Len(users) : users'[k] = users[k]
             ELSE users' = users]_vars

C9_RowAddedToStoredRows ==
    /\ req.op = "POST /users" /\ resp.status = 200
    /\ Len(users) = 3
    /\ users[3].updated_at # users[1].updated_at

\* C10: GET /users with any page_num and page_size that parse as integers,
\* zero and negative ones included, returns no more than max(page_size, 0)
\* users.
C10_AtMostPageSize ==
    (req.op = "GET /users" /\ resp.status = 200)
    => LET page_size == ArgInt(req.page_size, 10).val
       IN  Len(resp.body.users) <= (IF page_size > 0 THEN page_size ELSE 0)

====
